---- MODULE Spec2Model ----
(***************************************************************************)
(* Verification model of two programs of the repository:                   *)
(*   - class Inversions          (CS-Stanford-Coursera/findInversions.cpp) *)
(*   - class maxSumKEntriesArray (ATPs/max_sum_of_k_entries.cpp)           *)
(* Arrays keep the 0-based indexes of the source: an array is a function   *)
(* from 0..(slots - 1) to Int.                                             *)
(***************************************************************************)
EXTENDS Integers, Sequences, FiniteSets, TLC

\* ------------------------------------------------------------------------
\* Bounds of the model
\* ------------------------------------------------------------------------
MaxLen == 5      \* longest sequence loaded into Inversions::numbers[]
MaxVal == 5      \* loaded values are drawn from 1..MaxVal
MaxCalls == 2    \* numInversions() is called at most this often per object

\* numbers[] has Num_items (100,000) slots, all zero-initialised; the model
\* keeps the first ArrSlots of them, one more than any loaded length.
ArrSlots == MaxLen + 1

VARIABLES
    numbers,      \* Inversions::numbers[], slots 0..ArrSlots-1
    nelements,    \* Inversions::nelements
    phase,        \* "new" (constructed), "loaded", "counted"
    nInvFound,    \* value returned by the latest numInversions() call
    ncalls,       \* how many numInversions() calls were made
    orig,         \* numbers[] as it was when the latest call began
    calls,        \* the private-method calls of the latest call, in order of return
    verify_rv,    \* value returned by the latest verify() call ("none" before)
    error_index   \* verify()'s out-parameter

invVars == <<numbers, nelements, phase, nInvFound, ncalls, orig, calls,
             verify_rv, error_index>>

\* ------------------------------------------------------------------------
\* class Inversions: helpers
\* ------------------------------------------------------------------------
\* What a method hands back: the array, its return value, the calls it made.
Ret(a, rv, log) == [a |-> a, rv |-> rv, log |-> log]

\* One entry of the call log: the method, its arguments, numbers[] when it
\* began and when it returned, its return value (0 for a void method), how
\* many logged calls it made, and the branch it returned from.
Call(fn, args, pre, post, rv, inner, path) ==
    [fn |-> fn, args |-> args, pre |-> pre, post |-> post, rv |-> rv,
     inner |-> inner, path |-> path]

\* memmove(&a[dst], &a[src], n * sizeof(int)): copies as if through a
\* temporary, so every source slot is read before any slot is written.
memmove(a, dst, src, n) ==
    [x \in DOMAIN a |->
        IF x >= dst /\ x < dst + n THEN a[src + (x - dst)] ELSE a[x]]

\* Swap i'th item with j'th item in numbers[].
swap(a, i, j) ==
    LET tmp == a[i] IN [a EXCEPT ![i] = a[j], ![j] = tmp]

\* swapChunk moving one item more than asked.
swapChunk_oneMore(a, i, j, nitems) ==
    LET tmp == [x \in 0..nitems |-> a[i + x]]
        a1  == memmove(a, i, j, nitems + 1)
    IN  [x \in DOMAIN a |->
            IF x >= j /\ x < j + nitems + 1 THEN tmp[x - j] ELSE a1[x]]

\* Swap chunk of nitems from i'th and j'th index in numbers[].
swapChunk(a, i, j, nitems) ==
    LET tmp == [x \in 0..(nitems - 1) |-> a[i + x]]
        a1  == memmove(a, i, j, nitems)
    IN  [x \in DOMAIN a |->
            IF x >= j /\ x < j + nitems THEN tmp[x - j] ELSE a1[x]]

\* numInvBase with the pair counted but left in place.
numInvBase_noSwap(a, start, nitems) ==
    IF a[start] > a[start + 1]
    THEN Ret(a, 1, << Call("numInvBase", <<start, nitems>>, a, a, 1, 0, "swap") >>)
    ELSE Ret(a, 0, << Call("numInvBase", <<start, nitems>>, a, a, 0, 0, "keep") >>)

\* numInvBase with an equal pair flipped and counted too.
numInvBase_swapEqual(a, start, nitems) ==
    IF a[start] >= a[start + 1]
    THEN LET a1 == swap(a, start, start + 1)
         IN  Ret(a1, 1,
                 << Call("swap", <<start, start + 1>>, a, a1, 0, 0, ""),
                    Call("numInvBase", <<start, nitems>>, a, a1, 1, 1, "swap") >>)
    ELSE Ret(a, 0, << Call("numInvBase", <<start, nitems>>, a, a, 0, 0, "keep") >>)

\* The base case, nitems == 2: flip the pair if needed and count 1 inversion.
numInvBase(a, start, nitems) ==
    IF a[start] > a[start + 1]
    THEN LET a1 == swap(a, start, start + 1)
         IN  Ret(a1, 1,
                 << Call("swap", <<start, start + 1>>, a, a1, 0, 0, ""),
                    Call("numInvBase", <<start, nitems>>, a, a1, 1, 1, "swap") >>)
    ELSE Ret(a, 0, << Call("numInvBase", <<start, nitems>>, a, a, 0, 0, "keep") >>)

\* The while loop counting, at an upper-list step, one item fewer than the
\* lower list still holds.
RECURSIVE MergeLoop_skipCurrent(_, _, _)
MergeLoop_skipCurrent(m, loend, hiend) ==
    IF (m.lop < loend) /\ (m.hip < hiend)
    THEN IF m.a[m.lop] <= m.a[m.hip]
         THEN MergeLoop_skipCurrent(
                  [m EXCEPT !.a = [m.a EXCEPT ![m.curr] = m.a[m.lop]],
                            !.lop = m.lop + 1, !.curr = m.curr + 1,
                            !.steps = Append(@, [took |-> "lo", unconsumed |-> loend - m.lop])],
                  loend, hiend)
         ELSE MergeLoop_skipCurrent(
                  [m EXCEPT !.a = [m.a EXCEPT ![m.curr] = m.a[m.hip]],
                            !.hip = m.hip + 1, !.rv = m.rv + (loend - m.lop - 1),
                            !.curr = m.curr + 1,
                            !.steps = Append(@, [took |-> "hi", unconsumed |-> loend - m.lop])],
                  loend, hiend)
    ELSE m

\* The while loop taking the upper item on a tie (< in place of <=).
RECURSIVE MergeLoop_strictCompare(_, _, _)
MergeLoop_strictCompare(m, loend, hiend) ==
    IF (m.lop < loend) /\ (m.hip < hiend)
    THEN IF m.a[m.lop] < m.a[m.hip]
         THEN MergeLoop_strictCompare(
                  [m EXCEPT !.a = [m.a EXCEPT ![m.curr] = m.a[m.lop]],
                            !.lop = m.lop + 1, !.curr = m.curr + 1,
                            !.steps = Append(@, [took |-> "lo", unconsumed |-> loend - m.lop])],
                  loend, hiend)
         ELSE MergeLoop_strictCompare(
                  [m EXCEPT !.a = [m.a EXCEPT ![m.curr] = m.a[m.hip]],
                            !.hip = m.hip + 1, !.rv = m.rv + (loend - m.lop),
                            !.curr = m.curr + 1,
                            !.steps = Append(@, [took |-> "hi", unconsumed |-> loend - m.lop])],
                  loend, hiend)
    ELSE m

\* The while loop moving lop forward on every iteration, also when it took
\* the upper item.
RECURSIVE MergeLoop_lopAlways(_, _, _)
MergeLoop_lopAlways(m, loend, hiend) ==
    IF (m.lop < loend) /\ (m.hip < hiend)
    THEN IF m.a[m.lop] <= m.a[m.hip]
         THEN MergeLoop_lopAlways(
                  [m EXCEPT !.a = [m.a EXCEPT ![m.curr] = m.a[m.lop]],
                            !.lop = m.lop + 1, !.curr = m.curr + 1,
                            !.steps = Append(@, [took |-> "lo", unconsumed |-> loend - m.lop])],
                  loend, hiend)
         ELSE MergeLoop_lopAlways(
                  [m EXCEPT !.a = [m.a EXCEPT ![m.curr] = m.a[m.hip]],
                            !.lop = m.lop + 1,
                            !.hip = m.hip + 1, !.rv = m.rv + (loend - m.lop),
                            !.curr = m.curr + 1,
                            !.steps = Append(@, [took |-> "hi", unconsumed |-> loend - m.lop])],
                  loend, hiend)
    ELSE m

\* The while loop of numInvMerge. lop and hip are the indexes the pointers
\* of the same name point at: both read numbers[] itself, the array the
\* loop writes at curr. m holds the loop's variables, and in steps, for
\* each iteration, the side it took its element from and how many items of
\* the lower list were unconsumed then (loend - lop).
RECURSIVE MergeLoop(_, _, _)
MergeLoop(m, loend, hiend) ==
    IF (m.lop < loend) /\ (m.hip < hiend)
    THEN IF m.a[m.lop] <= m.a[m.hip]
         THEN MergeLoop([m EXCEPT !.a    = [m.a EXCEPT ![m.curr] = m.a[m.lop]],
                                  !.lop  = m.lop + 1,
                                  !.curr = m.curr + 1,
                                  !.steps = Append(@, [took |-> "lo",
                                                unconsumed |-> loend - m.lop])],
                        loend, hiend)
         ELSE MergeLoop([m EXCEPT !.a    = [m.a EXCEPT ![m.curr] = m.a[m.hip]],
                                  !.hip  = m.hip + 1,
                                  !.rv   = m.rv + (loend - m.lop),
                                  !.curr = m.curr + 1,
                                  !.steps = Append(@, [took |-> "hi",
                                                unconsumed |-> loend - m.lop])],
                        loend, hiend)
    ELSE m

\* The log entry of a numInvMerge call that ran the loop: the entry of Call,
\* and with it the loop's steps, the loop's own count, and the numbers of
\* lower and upper items unconsumed when the loop ended.
MergeCall(args, pre, post, rv, m) ==
    Call("numInvMerge", args, pre, post, rv, 0, "merge") @@
    [steps |-> m.steps, loop_rv |-> m.rv,
     leftover_lo |-> (args[1] + args[3]) - m.lop,
     leftover_hi |-> (args[2] + args[4]) - m.hip]

\* numInvMerge with the first fast path taken on li < h0 only.
numInvMerge_strictFirst(a, lo, hi, nitems_lo, nitems_hi) ==
    IF a[lo + nitems_lo - 1] < a[hi]
    THEN \* Case: li <= h0
         Ret(a, 0,
             << Call("numInvMerge", <<lo, hi, nitems_lo, nitems_hi>>, a, a, 0, 0,
                     "li <= h0") >>)
    ELSE IF (nitems_lo = nitems_hi) /\ (a[hi + nitems_lo - 1] <= a[lo])
    THEN \* Case: hj <= l0
         LET a1 == swapChunk(a, lo, hi, nitems_lo)
             rv == nitems_lo * nitems_lo
         IN  Ret(a1, rv,
                 << Call("swapChunk", <<lo, hi, nitems_lo>>, a, a1, 0, 0, ""),
                    Call("numInvMerge", <<lo, hi, nitems_lo, nitems_hi>>, a, a1, rv, 1,
                         "hj <= l0") >>)
    ELSE LET loend == lo + nitems_lo
             hiend == hi + nitems_hi
             m     == MergeLoop([a |-> a, lop |-> lo, hip |-> hi, curr |-> lo,
                                 rv |-> 0, steps |-> << >>], loend, hiend)
             leftover_lo_items == loend - m.lop
             a1    == IF m.lop < loend
                      THEN memmove(m.a, m.curr, m.lop, leftover_lo_items)
                      ELSE m.a
             rv    == IF m.lop < loend
                      THEN m.rv + (leftover_lo_items * nitems_hi)
                      ELSE m.rv
         IN  Ret(a1, rv,
                 << MergeCall(<<lo, hi, nitems_lo, nitems_hi>>, a, a1, rv, m) >>)

\* Merge of the two sorted sub-lists [lo, lo + nitems_lo) and
\* [hi, hi + nitems_hi), counting inversions.
numInvMerge(a, lo, hi, nitems_lo, nitems_hi) ==
    IF a[lo + nitems_lo - 1] <= a[hi]
    THEN \* Case: li <= h0
         Ret(a, 0,
             << Call("numInvMerge", <<lo, hi, nitems_lo, nitems_hi>>, a, a, 0, 0,
                     "li <= h0") >>)
    ELSE IF (nitems_lo = nitems_hi) /\ (a[hi + nitems_lo - 1] <= a[lo])
    THEN \* Case: hj <= l0
         LET a1 == swapChunk(a, lo, hi, nitems_lo)
             rv == nitems_lo * nitems_lo
         IN  Ret(a1, rv,
                 << Call("swapChunk", <<lo, hi, nitems_lo>>, a, a1, 0, 0, ""),
                    Call("numInvMerge", <<lo, hi, nitems_lo, nitems_hi>>, a, a1, rv, 1,
                         "hj <= l0") >>)
    ELSE LET loend == lo + nitems_lo
             hiend == hi + nitems_hi
             m     == MergeLoop([a |-> a, lop |-> lo, hip |-> hi, curr |-> lo,
                                 rv |-> 0, steps |-> << >>], loend, hiend)
             leftover_lo_items == loend - m.lop
             a1    == IF m.lop < loend
                      THEN memmove(m.a, m.curr, m.lop, leftover_lo_items)
                      ELSE m.a
             rv    == IF m.lop < loend
                      THEN m.rv + (leftover_lo_items * nitems_hi)
                      ELSE m.rv
         IN  Ret(a1, rv,
                 << MergeCall(<<lo, hi, nitems_lo, nitems_hi>>, a, a1, rv, m) >>)

RECURSIVE numInvSort(_, _, _)
\* numInvSort giving the extra item of an odd range to the lower list.
numInvSort_lowerGetsExtra(a, start, nitems) ==
    IF nitems <= 1
    THEN Ret(a, 0, << Call("numInvSort", <<start, nitems>>, a, a, 0, 0, "nitems <= 1") >>)
    ELSE IF nitems = 2
    THEN LET b == numInvBase(a, start, nitems)
         IN  Ret(b.a, b.rv,
                 b.log \o << Call("numInvSort", <<start, nitems>>, a, b.a, b.rv,
                                  Len(b.log), "nitems == 2") >>)
    ELSE LET nitems_lo == (nitems + 1) \div 2
             l == numInvSort(a, start, nitems_lo)
             nitems_hi == nitems - nitems_lo
             h == numInvSort(l.a, start + nitems_lo, nitems_hi)
             g == numInvMerge(h.a, start, start + nitems_lo, nitems_lo, nitems_hi)
             rv == l.rv + h.rv + g.rv
             log == l.log \o h.log \o g.log
         IN  Ret(g.a, rv,
                 log \o << Call("numInvSort", <<start, nitems>>, a, g.a, rv,
                                Len(log), "split") >>)

\* Merge-sort of the nitems items starting at index start, counting
\* inversions.
numInvSort(a, start, nitems) ==
    IF nitems <= 1
    THEN Ret(a, 0, << Call("numInvSort", <<start, nitems>>, a, a, 0, 0, "nitems <= 1") >>)
    ELSE IF nitems = 2
    THEN LET b == numInvBase(a, start, nitems)
         IN  Ret(b.a, b.rv,
                 b.log \o << Call("numInvSort", <<start, nitems>>, a, b.a, b.rv,
                                  Len(b.log), "nitems == 2") >>)
    ELSE LET nitems_lo == nitems \div 2
             l == numInvSort(a, start, nitems_lo)
             nitems_hi == nitems - nitems_lo
             h == numInvSort(l.a, start + nitems_lo, nitems_hi)
             g == numInvMerge(h.a, start, start + nitems_lo, nitems_lo, nitems_hi)
             rv == l.rv + h.rv + g.rv
             log == l.log \o h.log \o g.log
         IN  Ret(g.a, rv,
                 log \o << Call("numInvSort", <<start, nitems>>, a, g.a, rv,
                                Len(log), "split") >>)

\* numInversions with the singleton sent to the base case.
numInversions_noSingle(a, n) ==
    IF n < 1
    THEN Ret(a, 0, << >>)
    ELSE IF n <= 2
    THEN numInvBase(a, 0, n)
    ELSE LET nitems_lo == n \div 2
             l == numInvSort(a, 0, nitems_lo)
             nitems_hi == n - nitems_lo
             h == numInvSort(l.a, nitems_lo, nitems_hi)
             g == numInvMerge(h.a, 0, nitems_lo, nitems_lo, nitems_hi)
         IN  Ret(g.a, l.rv + h.rv + g.rv, l.log \o h.log \o g.log)

\* Inversions::numInversions() on the array a holding n elements.
numInversions(a, n) ==
    IF n <= 1
    THEN Ret(a, 0, << >>)
    ELSE IF n = 2
    THEN numInvBase(a, 0, n)
    ELSE LET nitems_lo == n \div 2
             l == numInvSort(a, 0, nitems_lo)
             nitems_hi == n - nitems_lo
             h == numInvSort(l.a, nitems_lo, nitems_hi)
             g == numInvMerge(h.a, 0, nitems_lo, nitems_lo, nitems_hi)
         IN  Ret(g.a, l.rv + h.rv + g.rv, l.log \o h.log \o g.log)

\* Inversions::verify(): [1] is the return value, [2] is error_index.
RECURSIVE verifyFrom(_, _, _)
verifyFrom(a, n, ictr) ==
    IF ictr < n - 1
    THEN IF a[ictr] > a[ictr + 1]
         THEN <<FALSE, ictr + 1>>
         ELSE verifyFrom(a, n, ictr + 1)
    ELSE <<TRUE, 0>>

verify(a, n) == verifyFrom(a, n, 0)

\* ------------------------------------------------------------------------
\* class Inversions: the object's life
\* ------------------------------------------------------------------------
\* Inversions data;   numbers[] = {0}, nelements = 0
InvInit ==
    /\ numbers = [x \in 0..(ArrSlots - 1) |-> 0]
    /\ nelements = 0
    /\ phase = "new"
    /\ nInvFound = 0
    /\ ncalls = 0
    /\ orig = [x \in 0..(ArrSlots - 1) |-> 0]
    /\ calls = << >>
    /\ verify_rv = "none"
    /\ error_index = 0

\* data.loadRand(nitems) / data.load(file): nitems values into numbers[].
loadRand ==
    /\ phase = "new"
    /\ \E nitems \in 0..MaxLen :
         \E input \in [0..(nitems - 1) -> 1..MaxVal] :
            /\ numbers' = [x \in 0..(ArrSlots - 1) |->
                              IF x < nitems THEN input[x] ELSE numbers[x]]
            /\ nelements' = nitems
    /\ phase' = "loaded"
    /\ UNCHANGED <<nInvFound, ncalls, orig, calls, verify_rv, error_index>>

\* int nInvFound = data.numInversions();
CallNumInversions ==
    /\ phase \in {"loaded", "counted"}
    /\ ncalls < MaxCalls
    /\ LET r == numInversions(numbers, nelements)
       IN  /\ numbers' = r.a
           /\ nInvFound' = r.rv
           /\ calls' = r.log
    /\ orig' = numbers
    /\ ncalls' = ncalls + 1
    /\ phase' = "counted"
    /\ UNCHANGED <<nelements, verify_rv, error_index>>

\* data.verify(error_at)
CallVerify ==
    /\ phase = "counted"
    /\ LET v == verify(numbers, nelements)
       IN  /\ verify_rv' = IF v[1] THEN "true" ELSE "false"
           /\ error_index' = v[2]
    /\ UNCHANGED <<numbers, nelements, phase, nInvFound, ncalls, orig, calls>>

\* ------------------------------------------------------------------------
\* class maxSumKEntriesArray
\* ------------------------------------------------------------------------
MaxN == 3        \* longest vector handed to the constructor
MaxAbs == 1      \* its values are drawn from -MaxAbs..MaxAbs
MaxNegK == 1     \* findMaxSum is called with k down to -MaxNegK

VARIABLES
    intArray,         \* maxSumKEntriesArray::intArray[], slots 0..arraySize-1
    arraySize,        \* maxSumKEntriesArray::arraySize
    op,               \* the latest public method called ("none" before any)
    kArg,             \* its argument k
    result,           \* the caller's variable the returned sum is assigned to
    startOfRun,       \* the caller's variable maxStartIndex points at
    slides,           \* iterations of the sliding loop in the latest findMaxSum
    windows,          \* its windows: start, end, currSum after each advance
    readIdx,          \* the indexes of intArray[] it read
    sum_slow,         \* verify(): value returned by findMaxSumK_BruteForce
    sum_opt,          \* verify(): value returned by findMaxSum
    startIndex_slow,  \* verify()'s local of that name
    startIndex_opt,   \* verify()'s local of that name
    verified          \* value returned by the latest verify() ("none" before)

maxVars == <<intArray, arraySize, op, kArg, result, startOfRun, slides,
             windows, readIdx,
             sum_slow, sum_opt, startIndex_slow, startIndex_opt, verified>>

\* findSumOfN(start, n): sum of the n entries beginning at index start.
RECURSIVE findSumOfN(_, _, _)
findSumOfN(a, start, n) ==
    IF n <= 0 THEN 0 ELSE findSumOfN(a, start, n - 1) + a[start + n - 1]

\* The while loop of findMaxSumK_BruteForce; start and end are the indexes
\* the pointers of the same name point at, r holds maxSum and *maxStartIndex.
RECURSIVE BruteForceLoop(_, _, _, _, _)
BruteForceLoop(a, n, k, start, r) ==
    IF start + k <= n             \* end <= arrayEnd
    THEN LET thisMaxSum == findSumOfN(a, start, k)
         IN  BruteForceLoop(a, n, k, start + 1,
                            IF thisMaxSum > r.sum
                            THEN [sum |-> thisMaxSum, idx |-> start]
                            ELSE r)
    ELSE r

\* findMaxSumK_BruteForce(k, maxStartIndex); idx0 is the value
\* *maxStartIndex holds when the call begins.
findMaxSumK_BruteForce(a, n, k, idx0) ==
    IF k >= n
    THEN [sum |-> findSumOfN(a, 0, n), idx |-> 0]
    ELSE BruteForceLoop(a, n, k, 0, [sum |-> 0, idx |-> idx0])

\* The sliding-window loop with a later equal sum taking over the index.
RECURSIVE SlideLoop_lastWins(_, _, _)
SlideLoop_lastWins(a, n, w) ==
    IF w.end < n - 1
    THEN LET start   == w.start + 1
             end     == w.end + 1
             currSum == (w.currSum - a[w.start]) + a[end]
         IN  SlideLoop_lastWins(a, n,
                 [start |-> start, end |-> end, currSum |-> currSum,
                  sum |-> IF currSum >= w.sum THEN currSum ELSE w.sum,
                  idx |-> IF currSum >= w.sum THEN start ELSE w.idx,
                  slides |-> w.slides + 1,
                  windows |-> Append(w.windows,
                                [start |-> start, end |-> end, currSum |-> currSum]),
                  reads |-> w.reads \cup {w.start, end}])
    ELSE w

\* The sliding-window loop adding the entering element without dropping
\* the leaving one.
RECURSIVE SlideLoop_noSubtract(_, _, _)
SlideLoop_noSubtract(a, n, w) ==
    IF w.end < n - 1
    THEN LET start   == w.start + 1
             end     == w.end + 1
             currSum == w.currSum + a[end]
         IN  SlideLoop_noSubtract(a, n,
                 [start |-> start, end |-> end, currSum |-> currSum,
                  sum |-> IF currSum > w.sum THEN currSum ELSE w.sum,
                  idx |-> IF currSum > w.sum THEN start ELSE w.idx,
                  slides |-> w.slides + 1,
                  windows |-> Append(w.windows,
                                [start |-> start, end |-> end, currSum |-> currSum]),
                  reads |-> w.reads \cup {end}])
    ELSE w

\* The sliding-window loop of findMaxSum; w holds start, end, currSum,
\* result and *maxStartIndex, and counts the iterations.
RECURSIVE SlideLoop(_, _, _)
SlideLoop(a, n, w) ==
    IF w.end < n - 1              \* end < arrayEnd
    THEN LET start   == w.start + 1
             end     == w.end + 1
             currSum == (w.currSum - a[w.start]) + a[end]
         IN  SlideLoop(a, n,
                 [start |-> start, end |-> end, currSum |-> currSum,
                  sum |-> IF currSum > w.sum THEN currSum ELSE w.sum,
                  idx |-> IF currSum > w.sum THEN start ELSE w.idx,
                  slides |-> w.slides + 1,
                  windows |-> Append(w.windows,
                                [start |-> start, end |-> end, currSum |-> currSum]),
                  reads |-> w.reads \cup {w.start, end}])
    ELSE w

\* findMaxSum whose k >= arraySize branch leaves *maxStartIndex alone.
findMaxSum_keepIndex(a, n, k, idx0) ==
    IF k >= n
    THEN [sum |-> findSumOfN(a, 0, n), idx |-> idx0, slides |-> 0,
          windows |-> << >>, reads |-> 0..(n - 1)]
    ELSE LET currSum == findSumOfN(a, 0, k)
             w == SlideLoop(a, n,
                     [start |-> 0, end |-> k - 1, currSum |-> currSum,
                      sum |-> currSum, idx |-> 0, slides |-> 0,
                      windows |-> << [start |-> 0, end |-> k - 1,
                                      currSum |-> currSum] >>,
                      reads |-> 0..(k - 1)])
         IN  [sum |-> w.sum, idx |-> w.idx, slides |-> w.slides,
              windows |-> w.windows, reads |-> w.reads]

\* findMaxSum(k, maxStartIndex)
findMaxSum(a, n, k, idx0) ==
    IF k >= n
    THEN [sum |-> findSumOfN(a, 0, n), idx |-> 0, slides |-> 0,
          windows |-> << >>, reads |-> 0..(n - 1)]
    ELSE LET currSum == findSumOfN(a, 0, k)
             w == SlideLoop(a, n,
                     [start |-> 0, end |-> k - 1, currSum |-> currSum,
                      sum |-> currSum, idx |-> 0, slides |-> 0,
                      windows |-> << [start |-> 0, end |-> k - 1,
                                      currSum |-> currSum] >>,
                      reads |-> 0..(k - 1)])
         IN  [sum |-> w.sum, idx |-> w.idx, slides |-> w.slides,
              windows |-> w.windows, reads |-> w.reads]

\* maxSumKEntriesArray my_array(data); int startOfRun = 0;
MaxInit ==
    /\ arraySize \in 0..MaxN
    /\ intArray \in [0..(arraySize - 1) -> (-MaxAbs)..MaxAbs]
    /\ op = "none"
    /\ kArg = 0
    /\ result = 0
    /\ startOfRun = 0
    /\ slides = 0
    /\ windows = << >>
    /\ readIdx = {}
    /\ sum_slow = 0
    /\ sum_opt = 0
    /\ startIndex_slow = -1
    /\ startIndex_opt = -1
    /\ verified = "none"

\* result = my_array.findMaxSumK_BruteForce(k, &startOfRun);
CallBruteForce ==
    \E k \in 1..(MaxN + 1) :
       LET r == findMaxSumK_BruteForce(intArray, arraySize, k, startOfRun)
       IN  /\ op' = "findMaxSumK_BruteForce"
           /\ kArg' = k
           /\ result' = r.sum
           /\ startOfRun' = r.idx
           /\ UNCHANGED <<intArray, arraySize, slides, windows, readIdx,
                          sum_slow, sum_opt,
                          startIndex_slow, startIndex_opt, verified>>

\* A findMaxSum(k, &startOfRun) call whose pointers read from mem.
FindMaxSumCall(k, mem) ==
    LET r == findMaxSum(mem, arraySize, k, startOfRun)
    IN  /\ op' = "findMaxSum"
        /\ kArg' = k
        /\ result' = r.sum
        /\ startOfRun' = r.idx
        /\ slides' = r.slides
        /\ windows' = r.windows
        /\ readIdx' = r.reads
        /\ UNCHANGED <<intArray, arraySize, sum_slow, sum_opt,
                       startIndex_slow, startIndex_opt, verified>>

\* result = my_array.findMaxSum(k, &startOfRun);
CallFindMaxSum ==
    \E k \in 1..(MaxN + 1) : FindMaxSumCall(k, intArray)

\* The indexes outside intArray[0..arraySize-1] that findMaxSum(k) reaches
\* when k < 1: slots of intArray[] the constructor never wrote, and bytes
\* before the array.
OutOfRange(k) ==
    IF k < 1
    THEN (k..(arraySize - k - 1)) \ (0..(arraySize - 1))
    ELSE {}

\* Two sample values of what those locations hold.
Garbage == {-1, 1}

\* The memory findMaxSum's pointers read: intArray[] as the constructor
\* filled it, and g elsewhere.
Memory(g) ==
    [x \in (0..(arraySize - 1)) \cup DOMAIN g |->
        IF x \in 0..(arraySize - 1) THEN intArray[x] ELSE g[x]]

\* result = my_array.findMaxSum(k, &startOfRun); for any k the caller may
\* pass, k < 1 included.
CallFindMaxSumAnyK ==
    \E k \in (-MaxNegK)..(MaxN + 1) :
        \E g \in [OutOfRange(k) -> Garbage] : FindMaxSumCall(k, Memory(g))

\* my_array.verify(k): both methods, each with its own local set to -1.
CallVerifyK ==
    \E k \in 1..(MaxN + 1) :
       LET s == findMaxSumK_BruteForce(intArray, arraySize, k, -1)
           o == findMaxSum(intArray, arraySize, k, -1)
       IN  /\ op' = "verify"
           /\ kArg' = k
           /\ sum_slow' = s.sum
           /\ startIndex_slow' = s.idx
           /\ sum_opt' = o.sum
           /\ startIndex_opt' = o.idx
           /\ slides' = o.slides
           /\ windows' = o.windows
           /\ readIdx' = o.reads
           /\ verified' = IF s.sum = o.sum THEN "true" ELSE "false"
           /\ UNCHANGED <<intArray, arraySize, result, startOfRun>>

\* ------------------------------------------------------------------------
\* class Inversions: the two recursive halves of numInversions() run as two
\* processes on the one numbers[] array, joined before the final merge
\* ------------------------------------------------------------------------
MaxForkLen == 7  \* longest sequence the fork-join run is given
MaxForkVal == 2  \* its values are drawn from 1..MaxForkVal

VARIABLES
    fnumbers,     \* numbers[], shared by the two processes
    fnelements,   \* nelements
    forig,        \* numbers[] as loaded
    fpc,          \* "loaded", "forked", "joined"
    ftodo,        \* per process: the base and merge calls it has yet to make
    frv,          \* per process: rv accumulated by its numInvSort call
    fwrote,       \* per process: the indexes whose value it has changed
    fmixed,       \* a process has run while the other was part-way through
    ftotal        \* value returned after the join

forkVars == <<fnumbers, fnelements, forig, fpc, ftodo, frv, fwrote, fmixed,
              ftotal>>

Procs == {1, 2}

\* The sub-range <<start, nitems>> each process is given: the arguments of
\* the two numInvSort calls of numInversions().
HalfOf(p, n) ==
    LET nitems_lo == n \div 2
        nitems_hi == n - nitems_lo
    IN  IF p = 1 THEN <<0, nitems_lo>> ELSE <<nitems_lo, nitems_hi>>

\* The numInvBase and numInvMerge calls numInvSort(start, nitems) makes, in
\* the order it makes them; which calls are made depends on start and nitems
\* alone, never on the array.
LeafCalls(a, start, nitems) ==
    LET log == numInvSort(a, start, nitems).log
    IN  SelectSeq(log, LAMBDA c : c.fn \in {"numInvBase", "numInvMerge"})

ForkInit ==
    /\ fnelements \in 3..MaxForkLen
    /\ \E input \in [0..(fnelements - 1) -> 1..MaxForkVal] :
          fnumbers = [x \in 0..MaxForkLen |->
                         IF x < fnelements THEN input[x] ELSE 0]
    /\ forig = fnumbers
    /\ fpc = "loaded"
    /\ ftodo = [p \in Procs |-> << >>]
    /\ frv = [p \in Procs |-> 0]
    /\ fwrote = [p \in Procs |-> {}]
    /\ fmixed = FALSE
    /\ ftotal = 0

\* numInversions() with nelements > 2: one process per numInvSort call.
Fork ==
    /\ fpc = "loaded"
    /\ fnelements > 2
    /\ ftodo' = [p \in Procs |->
                    LET h == HalfOf(p, fnelements)
                    IN  LeafCalls(fnumbers, h[1], h[2])]
    /\ fpc' = "forked"
    /\ UNCHANGED <<fnumbers, fnelements, forig, frv, fwrote, fmixed, ftotal>>

\* Process p makes its next call, on numbers[] as it is now.
ForkStep(p) ==
    /\ fpc = "forked"
    /\ ftodo[p] # << >>
    /\ LET c == Head(ftodo[p])
           r == IF c.fn = "numInvBase"
                THEN numInvBase(fnumbers, c.args[1], c.args[2])
                ELSE numInvMerge(fnumbers, c.args[1], c.args[2], c.args[3],
                                 c.args[4])
           q == CHOOSE other \in Procs : other # p
       IN  /\ fnumbers' = r.a
           /\ frv' = [frv EXCEPT ![p] = @ + r.rv]
           /\ fwrote' = [fwrote EXCEPT
                            ![p] = @ \cup {x \in DOMAIN fnumbers :
                                              r.a[x] # fnumbers[x]}]
           /\ fmixed' = (fmixed \/ ( /\ ftodo[q] # << >>
                                     /\ Len(ftodo[q]) <
                                        Len(LeafCalls(forig,
                                                HalfOf(q, fnelements)[1],
                                                HalfOf(q, fnelements)[2])) ))
    /\ ftodo' = [ftodo EXCEPT ![p] = Tail(@)]
    /\ UNCHANGED <<fnelements, forig, fpc, ftotal>>

\* Both processes are done: merge the two sorted sub-lists.
Join ==
    /\ fpc = "forked"
    /\ \A p \in Procs : ftodo[p] = << >>
    /\ LET nitems_lo == HalfOf(1, fnelements)[2]
           nitems_hi == HalfOf(2, fnelements)[2]
           g == numInvMerge(fnumbers, 0, nitems_lo, nitems_lo, nitems_hi)
       IN  /\ fnumbers' = g.a
           /\ ftotal' = frv[1] + frv[2] + g.rv
    /\ fpc' = "joined"
    /\ UNCHANGED <<fnelements, forig, ftodo, frv, fwrote, fmixed>>

\* ------------------------------------------------------------------------
\* class Inversions at full size: the width of the returned count
\* ------------------------------------------------------------------------
Num_items == 100000      \* capacity of Inversions::numbers[]
IntMax == 2147483647     \* largest value of the int the counts are held in
MaxSamples == 100        \* number of array lengths sampled up to Num_items

VARIABLES
    big_pc,          \* "loaded", then "returned" from the top-level merge
    big_nelements,   \* Inversions::nelements; the items are in strictly
                     \* descending order and are not represented
    big_nitems_lo,   \* numInvMerge's argument nitems_lo (== nitems_hi)
    big_rv,          \* the int numInvMerge returns
    big_overflow     \* whether computing it overflowed the int

bigVars == <<big_pc, big_nelements, big_nitems_lo, big_rv, big_overflow>>

\* nitems_lo * nitems_lo computed in an int: the product if it fits, else
\* the product less 2^32, which is what the wrapping multiplication leaves
\* for 2^31 <= product < 2^32.
IntSquare(a) ==
    IF (a > 0) /\ (a > IntMax \div a)
    THEN [rv |-> (a - 65536) * (a + 65536), overflow |-> TRUE]
    ELSE [rv |-> a * a, overflow |-> FALSE]

\* The sampled half lengths, evenly spread up to Num_items / 2.
HalfLengths ==
    {((Num_items \div 2) * s) \div MaxSamples : s \in 1..MaxSamples}

\* An Inversions object loaded with an even number of items, at most
\* Num_items, in strictly descending order.
BigInit ==
    /\ big_pc = "loaded"
    /\ big_nelements \in {2 * h : h \in HalfLengths}
    /\ big_nitems_lo = 0
    /\ big_rv = 0
    /\ big_overflow = FALSE

\* The numInvMerge(0, nitems_lo, nitems_lo, nitems_hi) call that ends
\* numInversions(): the lower half holds the larger items, so the call takes
\* the "hj <= l0" path and returns nitems_lo * nitems_lo.
BigTopMerge ==
    /\ big_pc = "loaded"
    /\ LET nitems_lo == big_nelements \div 2
           nitems_hi == big_nelements - nitems_lo
           r == IntSquare(nitems_lo)
       IN  /\ nitems_lo = nitems_hi
           /\ big_nitems_lo' = nitems_lo
           /\ big_rv' = r.rv
           /\ big_overflow' = r.overflow
    /\ big_pc' = "returned"
    /\ UNCHANGED big_nelements

\* ------------------------------------------------------------------------
\* pthread_condvar-gas-station.c
\* ------------------------------------------------------------------------
NUM_FILL_LOOPS == 5
AMOUNT_FILLED_PER_LOOP == 15
MIN_FUEL_AVAILABLE == 40
MaxCars == 2       \* car threads started by Self-Study's main (NUM_CARS)
MaxFillers == 1    \* filler threads started by it (NUM_FILLERS)
MaxFuel == 75      \* a filler of the endless loop waits while the tank
                   \* would go beyond this

Threads == 1..(MaxCars + MaxFillers)

VARIABLES
    gprog,       \* which file's main() runs: "Self-Study" or "Pthreads-Sync"
    grole,       \* per thread: "car", "filler", or "absent" (not created)
    fuel,        \* int fuel
    mutexFuel,   \* the thread holding mutexFuel, 0 when it is free
    condFuel,    \* the threads blocked in pthread_cond_wait(&condFuel, ..)
    gpc,         \* per thread: the statement it is at
    gi           \* per filler: the for loop's i

gasVars == <<gprog, grole, fuel, mutexFuel, condFuel, gpc, gi>>

\* main() of Self-Study/Pthreads-Sync: MaxCars cars and MaxFillers fillers;
\* main() of Pthreads-Sync: thread 0 is a car and thread 1 a filler. The
\* threads run as soon as they are created.
GasInit ==
    /\ gprog \in {"Self-Study", "Pthreads-Sync"}
    /\ grole = [t \in Threads |->
                  IF gprog = "Self-Study"
                  THEN IF t <= MaxCars THEN "car" ELSE "filler"
                  ELSE IF t = 1 THEN "car"
                       ELSE IF t = 2 THEN "filler" ELSE "absent"]
    /\ fuel = 0
    /\ mutexFuel = 0
    /\ condFuel = {}
    /\ gpc = [t \in Threads |->
                  IF grole[t] = "car" THEN "start"
                  ELSE IF grole[t] = "filler" THEN "lock" ELSE "absent"]
    /\ gi = [t \in Threads |-> 0]

\* car: pthread_mutex_lock(&mutexFuel);
CarLock(c) ==
    /\ gpc[c] = "start"
    /\ mutexFuel = 0
    /\ mutexFuel' = c
    /\ gpc' = [gpc EXCEPT ![c] = "test"]
    /\ UNCHANGED <<gprog, grole, fuel, condFuel, gi>>

\* car: while (fuel < MIN_FUEL_AVAILABLE): if so, enter pthread_cond_wait,
\* which releases the mutex and blocks; if not, go on to draw.
CarTest(c) ==
    /\ gpc[c] = "test"
    /\ IF fuel < MIN_FUEL_AVAILABLE
       THEN /\ mutexFuel' = 0
            /\ condFuel' = condFuel \cup {c}
            /\ gpc' = [gpc EXCEPT ![c] = "waiting"]
       ELSE /\ gpc' = [gpc EXCEPT ![c] = "draw"]
            /\ UNCHANGED <<mutexFuel, condFuel>>
    /\ UNCHANGED <<gprog, grole, fuel, gi>>

\* pthread_cond_wait may return without any signal.
SpuriousWake(c) ==
    /\ gpc[c] = "waiting"
    /\ condFuel' = condFuel \ {c}
    /\ gpc' = [gpc EXCEPT ![c] = "woken"]
    /\ UNCHANGED <<gprog, grole, fuel, mutexFuel, gi>>

\* car, woken and returning straight to the draw, the loop test skipped.
CarWaitReturn_noRecheck(c) ==
    /\ gpc[c] = "woken"
    /\ mutexFuel = 0
    /\ mutexFuel' = c
    /\ gpc' = [gpc EXCEPT ![c] = "draw"]
    /\ UNCHANGED <<gprog, grole, fuel, condFuel, gi>>

\* car: pthread_cond_wait re-acquires the mutex and returns; the while loop
\* tests fuel again.
CarWaitReturn(c) ==
    /\ gpc[c] = "woken"
    /\ mutexFuel = 0
    /\ mutexFuel' = c
    /\ gpc' = [gpc EXCEPT ![c] = "test"]
    /\ UNCHANGED <<gprog, grole, fuel, condFuel, gi>>

\* car: fuel -= MIN_FUEL_AVAILABLE;
CarDraw(c) ==
    /\ gpc[c] = "draw"
    /\ fuel' = fuel - MIN_FUEL_AVAILABLE
    /\ gpc' = [gpc EXCEPT ![c] = "unlock"]
    /\ UNCHANGED <<gprog, grole, mutexFuel, condFuel, gi>>

\* car: pthread_mutex_unlock(&mutexFuel); return NULL;
CarUnlock(c) ==
    /\ grole[c] = "car"
    /\ gpc[c] = "unlock"
    /\ mutexFuel' = 0
    /\ gpc' = [gpc EXCEPT ![c] = "done"]
    /\ UNCHANGED <<gprog, grole, fuel, condFuel, gi>>

\* fuel_filling: pthread_mutex_lock(&mutexFuel);
FillerLock(f) ==
    /\ gpc[f] = "lock"
    /\ mutexFuel = 0
    /\ fuel + AMOUNT_FILLED_PER_LOOP <= MaxFuel
    /\ mutexFuel' = f
    /\ gpc' = [gpc EXCEPT ![f] = "fill"]
    /\ UNCHANGED <<gprog, grole, fuel, condFuel, gi>>

\* fuel_filling: fuel += AMOUNT_FILLED_PER_LOOP;
FillerFill(f) ==
    /\ gpc[f] = "fill"
    /\ fuel' = fuel + AMOUNT_FILLED_PER_LOOP
    /\ gpc' = [gpc EXCEPT ![f] = "wake"]
    /\ UNCHANGED <<gprog, grole, mutexFuel, condFuel, gi>>

\* fuel_filling with the call on condFuel left out.
FillerWake_none(f) ==
    /\ gpc[f] = "wake"
    /\ gpc' = [gpc EXCEPT ![f] = "unlock"]
    /\ UNCHANGED <<gprog, grole, fuel, mutexFuel, condFuel, gi>>

\* fuel_filling: pthread_cond_broadcast(&condFuel) in Self-Study, which
\* wakes every waiter; pthread_cond_signal(&condFuel) in Pthreads-Sync,
\* which wakes one waiter if there is any.
FillerWake(f) ==
    /\ gpc[f] = "wake"
    /\ IF gprog = "Self-Study"
       THEN /\ condFuel' = {}
            /\ gpc' = [t \in Threads |->
                          IF t = f THEN "unlock"
                          ELSE IF t \in condFuel THEN "woken" ELSE gpc[t]]
       ELSE IF condFuel = {}
            THEN /\ gpc' = [gpc EXCEPT ![f] = "unlock"]
                 /\ UNCHANGED condFuel
            ELSE \E w \in condFuel :
                    /\ condFuel' = condFuel \ {w}
                    /\ gpc' = [gpc EXCEPT ![f] = "unlock", ![w] = "woken"]
    /\ UNCHANGED <<gprog, grole, fuel, mutexFuel, gi>>

\* fuel_filling: pthread_mutex_unlock(&mutexFuel);
FillerUnlock(f) ==
    /\ grole[f] = "filler"
    /\ gpc[f] = "unlock"
    /\ mutexFuel' = 0
    /\ gpc' = [gpc EXCEPT ![f] = "sleep"]
    /\ UNCHANGED <<gprog, grole, fuel, condFuel, gi>>

\* fuel_filling: sleep(1); i++; then the next iteration, or, after
\* NUM_FILL_LOOPS of them, the for loop again from 0 (Self-Study's
\* while (1)) or return NULL (Pthreads-Sync).
FillerSleep(f) ==
    /\ gpc[f] = "sleep"
    /\ IF gi[f] + 1 < NUM_FILL_LOOPS
       THEN /\ gi' = [gi EXCEPT ![f] = gi[f] + 1]
            /\ gpc' = [gpc EXCEPT ![f] = "lock"]
       ELSE IF gprog = "Self-Study"
            THEN /\ gi' = [gi EXCEPT ![f] = 0]
                 /\ gpc' = [gpc EXCEPT ![f] = "lock"]
            ELSE /\ gi' = gi
                 /\ gpc' = [gpc EXCEPT ![f] = "done"]
    /\ UNCHANGED <<gprog, grole, fuel, mutexFuel, condFuel>>

\* A step of thread t that its own code takes.
ThreadStep(t) ==
    \/ CarLock(t)
    \/ CarTest(t)
    \/ CarWaitReturn(t)
    \/ CarDraw(t)
    \/ CarUnlock(t)
    \/ FillerLock(t)
    \/ FillerFill(t)
    \/ FillerWake(t)
    \/ FillerUnlock(t)
    \/ FillerSleep(t)

\* The steps of thread t that take the mutex.
Acquire(t) == CarLock(t) \/ CarWaitReturn(t) \/ FillerLock(t)

\* ------------------------------------------------------------------------
\* pthread_lock_basic.c (Self-Study/Pthreads-Sync)
\* ------------------------------------------------------------------------
MaxMailers == 2    \* threads running routine() (NUM_THREADS)
MaxIter == 2       \* iterations of routine()'s for loop (10 * MILLION)

Mailers == 1..MaxMailers

VARIABLES
    mails,          \* int mails
    mutex,          \* the thread holding mutex, 0 when it is free
    lpc,            \* per thread: the statement it is at
    li,             \* per thread: the for loop's i
    lreg,           \* per thread: the value of mails it read for mails++
    thread_id,      \* per thread: what it read through arg (-1 before)
    old_mails_ct,   \* per thread: routine()'s local of that name
    new_mails_ct,   \* per thread: routine()'s local of that name
    lmain,          \* main(): "joining" its threads, then "joined"
    actual          \* the Actual value main() prints (-1 before)

lockVars == <<mails, mutex, lpc, li, lreg, thread_id, old_mails_ct,
              new_mails_ct, lmain, actual>>

\* main() up to its join loop: every thread created.
LockInit ==
    /\ mails = 0
    /\ mutex = 0
    /\ lpc = [t \in Mailers |-> "start"]
    /\ li = [t \in Mailers |-> 0]
    /\ lreg = [t \in Mailers |-> 0]
    /\ thread_id = [t \in Mailers |-> -1]
    /\ old_mails_ct = [t \in Mailers |-> -1]
    /\ new_mails_ct = [t \in Mailers |-> -1]
    /\ lmain = "joining"
    /\ actual = -1

\* int thread_id = *(int *) arg; arg points at main()'s tctr, which main()
\* goes on incrementing: the thread reads any value tctr takes.
RoutineStart(t) ==
    /\ lpc[t] = "start"
    /\ \E id \in 0..MaxMailers : thread_id' = [thread_id EXCEPT ![t] = id]
    /\ lpc' = [lpc EXCEPT ![t] = "lock"]
    /\ UNCHANGED <<mails, mutex, li, lreg, old_mails_ct, new_mails_ct,
                   lmain, actual>>

\* routine() entering the increment without taking the mutex.
RoutineLock_noLock(t) ==
    /\ lpc[t] = "lock"
    /\ lpc' = [lpc EXCEPT ![t] = "load"]
    /\ UNCHANGED <<mails, mutex, li, lreg, thread_id, old_mails_ct,
                   new_mails_ct, lmain, actual>>

\* pthread_mutex_lock(&mutex);
RoutineLock(t) ==
    /\ lpc[t] = "lock"
    /\ mutex = 0
    /\ mutex' = t
    /\ lpc' = [lpc EXCEPT ![t] = "load"]
    /\ UNCHANGED <<mails, li, lreg, thread_id, old_mails_ct, new_mails_ct,
                   lmain, actual>>

\* if (old_mails_ct == -1) old_mails_ct = mails; and the read of mails++.
RoutineLoad(t) ==
    /\ lpc[t] = "load"
    /\ old_mails_ct' = [old_mails_ct EXCEPT
                           ![t] = IF @ = -1 THEN mails ELSE @]
    /\ lreg' = [lreg EXCEPT ![t] = mails]
    /\ lpc' = [lpc EXCEPT ![t] = "store"]
    /\ UNCHANGED <<mails, mutex, li, thread_id, new_mails_ct, lmain, actual>>

\* the write of mails++; if (i == last) new_mails_ct = mails;
RoutineStore(t) ==
    /\ lpc[t] = "store"
    /\ mails' = lreg[t] + 1
    /\ new_mails_ct' = [new_mails_ct EXCEPT
                           ![t] = IF li[t] = MaxIter - 1 THEN lreg[t] + 1 ELSE @]
    /\ lpc' = [lpc EXCEPT ![t] = "unlock"]
    /\ UNCHANGED <<mutex, li, lreg, thread_id, old_mails_ct, lmain, actual>>

\* pthread_mutex_unlock(&mutex); i++; and the loop test.
RoutineUnlock(t) ==
    /\ lpc[t] = "unlock"
    /\ mutex' = 0
    /\ li' = [li EXCEPT ![t] = li[t] + 1]
    /\ lpc' = [lpc EXCEPT ![t] = IF li[t] + 1 < MaxIter THEN "lock" ELSE "done"]
    /\ UNCHANGED <<mails, lreg, thread_id, old_mails_ct, new_mails_ct,
                   lmain, actual>>

\* main(): every pthread_join has returned; the Actual value is printed.
MainJoin ==
    /\ lmain = "joining"
    /\ \A t \in Mailers : lpc[t] = "done"
    /\ lmain' = "joined"
    /\ actual' = mails
    /\ UNCHANGED <<mails, mutex, lpc, li, lreg, thread_id, old_mails_ct,
                   new_mails_ct>>

\* ------------------------------------------------------------------------
\* ch2.ll.detect-loop.cpp: class LinkedList
\* ------------------------------------------------------------------------
MaxNodes == 3      \* Node objects allocated at most
MaxData == 2       \* Node::data is drawn from 1..MaxData

Nodes == 1..MaxNodes

VARIABLES
    head,        \* LinkedList::head, 0 for NULL
    llnext,      \* Node::next of each allocated node, 0 for NULL
    lldata,      \* Node::data of each allocated node
    llalloc,     \* nodes allocated so far: 1..llalloc
    llop,        \* the latest operation on the list
    loopNode,    \* what the latest findLoop() returned, 0 for NULL
    llsteps      \* iterations of its while loop

listVars == <<head, llnext, lldata, llalloc, llop, loopNode, llsteps>>

\* The node reached from p by following k next pointers; NULL stays NULL.
RECURSIVE Hop(_, _, _)
Hop(nx, p, k) ==
    IF k = 0 \/ p = 0 THEN p ELSE Hop(nx, nx[p], k - 1)

\* findLoop returning the node whose next pointer closes the loop.
RECURSIVE FindLoopWalk_returnsCloser(_, _, _, _)
FindLoopWalk_returnsCloser(nx, nodep, visited, steps) ==
    IF nodep = 0
    THEN [rnode |-> 0, steps |-> steps]
    ELSE IF nx[nodep] \in (visited \cup {nodep})
    THEN [rnode |-> nodep, steps |-> steps + 1]
    ELSE FindLoopWalk_returnsCloser(nx, nx[nodep], visited \cup {nodep},
                                    steps + 1)

\* The while loop of findLoop: nodep is *nextp, visited the set of that
\* name; steps counts the iterations.
RECURSIVE FindLoopWalk(_, _, _, _)
FindLoopWalk(nx, nodep, visited, steps) ==
    IF nodep = 0
    THEN [rnode |-> 0, steps |-> steps]
    ELSE IF nodep \notin visited
    THEN FindLoopWalk(nx, nx[nodep], visited \cup {nodep}, steps + 1)
    ELSE [rnode |-> nodep, steps |-> steps + 1]

\* LinkedList::findLoop()
findLoop(h, nx) == FindLoopWalk(nx, h, {}, 0)

\* LinkedList list;
ListInit ==
    /\ head = 0
    /\ llnext = [n \in Nodes |-> 0]
    /\ lldata = [n \in Nodes |-> 0]
    /\ llalloc = 0
    /\ llop = "none"
    /\ loopNode = 0
    /\ llsteps = 0

\* list.appendToTail(d): its while loop ends at the NULL that ends the
\* chain, so the call returns only on a chain that has one; the new node
\* is hung there.
appendToTail ==
    \E d \in 1..MaxData :
        /\ llalloc < MaxNodes
        /\ \E k \in 0..llalloc :
              /\ Hop(llnext, head, k) = 0
              /\ \A j \in 0..(k - 1) : Hop(llnext, head, j) # 0
              /\ LET newNode == llalloc + 1
                 IN  /\ IF k = 0
                        THEN head' = newNode /\ llnext' = llnext
                        ELSE /\ head' = head
                             /\ llnext' = [llnext EXCEPT
                                    ![Hop(llnext, head, k - 1)] = newNode]
                     /\ lldata' = [lldata EXCEPT ![newNode] = d]
                     /\ llalloc' = newNode
        /\ llop' = "appendToTail"
        /\ UNCHANGED <<loopNode, llsteps>>

\* n->next = m; the tests' poke of a next pointer, for any two nodes the
\* list has handed out.
pokeNext ==
    \E n \in 1..llalloc, m \in 1..llalloc :
        /\ llnext' = [llnext EXCEPT ![n] = m]
        /\ llop' = "poke"
        /\ UNCHANGED <<head, lldata, llalloc, loopNode, llsteps>>

\* Node *loopNode = list.findLoop();
CallFindLoop ==
    LET r == findLoop(head, llnext)
    IN  /\ loopNode' = r.rnode
        /\ llsteps' = r.steps
        /\ llop' = "findLoop"
        /\ UNCHANGED <<head, llnext, lldata, llalloc>>

\* ------------------------------------------------------------------------
\* Specifications: one per program, the other programs' objects untouched
\* ------------------------------------------------------------------------
InvIdle ==
    /\ numbers = << >>
    /\ nelements = 0
    /\ phase = "absent"
    /\ nInvFound = 0
    /\ ncalls = 0
    /\ orig = << >>
    /\ calls = << >>
    /\ verify_rv = "none"
    /\ error_index = 0

MaxIdle ==
    /\ intArray = << >>
    /\ arraySize = 0
    /\ op = "absent"
    /\ kArg = 0
    /\ result = 0
    /\ startOfRun = 0
    /\ slides = 0
    /\ windows = << >>
    /\ readIdx = {}
    /\ sum_slow = 0
    /\ sum_opt = 0
    /\ startIndex_slow = -1
    /\ startIndex_opt = -1
    /\ verified = "none"

ForkIdle ==
    /\ fnumbers = << >>
    /\ fnelements = 0
    /\ forig = << >>
    /\ fpc = "absent"
    /\ ftodo = << >>
    /\ frv = << >>
    /\ fwrote = << >>
    /\ fmixed = FALSE
    /\ ftotal = 0

BigIdle ==
    /\ big_pc = "absent"
    /\ big_nelements = 0
    /\ big_nitems_lo = 0
    /\ big_rv = 0
    /\ big_overflow = FALSE

GasIdle ==
    /\ gprog = "absent"
    /\ grole = << >>
    /\ fuel = 0
    /\ mutexFuel = 0
    /\ condFuel = {}
    /\ gpc = << >>
    /\ gi = << >>

LockIdle ==
    /\ mails = 0
    /\ mutex = 0
    /\ lpc = << >>
    /\ li = << >>
    /\ lreg = << >>
    /\ thread_id = << >>
    /\ old_mails_ct = << >>
    /\ new_mails_ct = << >>
    /\ lmain = "absent"
    /\ actual = -1

ListIdle ==
    /\ head = 0
    /\ llnext = << >>
    /\ lldata = << >>
    /\ llalloc = 0
    /\ llop = "absent"
    /\ loopNode = 0
    /\ llsteps = 0

vars == <<invVars, maxVars, forkVars, bigVars, gasVars, lockVars, listVars>>

notInv == <<maxVars, forkVars, bigVars, gasVars, lockVars, listVars>>
notMax == <<invVars, forkVars, bigVars, gasVars, lockVars, listVars>>
notFork == <<invVars, maxVars, bigVars, gasVars, lockVars, listVars>>
notBig == <<invVars, maxVars, forkVars, gasVars, lockVars, listVars>>
notGas == <<invVars, maxVars, forkVars, bigVars, lockVars, listVars>>
notLock == <<invVars, maxVars, forkVars, bigVars, gasVars, listVars>>
notList == <<invVars, maxVars, forkVars, bigVars, gasVars, lockVars>>

InvNext ==
    \/ loadRand /\ UNCHANGED notInv
    \/ CallNumInversions /\ UNCHANGED notInv
    \/ CallVerify /\ UNCHANGED notInv

MaxNext ==
    \/ CallBruteForce /\ UNCHANGED notMax
    \/ CallFindMaxSum /\ UNCHANGED notMax
    \/ CallVerifyK /\ UNCHANGED notMax

ForkNext ==
    \/ Fork /\ UNCHANGED notFork
    \/ (\E p \in Procs : ForkStep(p)) /\ UNCHANGED notFork
    \/ Join /\ UNCHANGED notFork

InitInversions ==
    InvInit /\ MaxIdle /\ ForkIdle /\ BigIdle /\ GasIdle /\ LockIdle /\ ListIdle

SpecInv == InitInversions /\ [][InvNext]_vars

InitMaxSum ==
    MaxInit /\ InvIdle /\ ForkIdle /\ BigIdle /\ GasIdle /\ LockIdle /\ ListIdle

SpecMax == InitMaxSum /\ [][MaxNext]_vars

\* maxSumKEntriesArray called with window lengths below 1 as well.
AnyKNext == CallFindMaxSumAnyK /\ UNCHANGED notMax

InitMaxAnyK ==
    MaxInit /\ InvIdle /\ ForkIdle /\ BigIdle /\ GasIdle /\ LockIdle /\ ListIdle

SpecMaxAnyK == InitMaxAnyK /\ [][AnyKNext]_vars

InitFork ==
    ForkInit /\ InvIdle /\ MaxIdle /\ BigIdle /\ GasIdle /\ LockIdle /\ ListIdle

SpecFork == InitFork /\ [][ForkNext]_vars

\* Inversions at full size.
BigNext == BigTopMerge /\ UNCHANGED notBig

InitBig ==
    BigInit /\ InvIdle /\ MaxIdle /\ ForkIdle /\ GasIdle /\ LockIdle /\ ListIdle

SpecBig == InitBig /\ [][BigNext]_vars

\* The gas station: any interleaving of the threads' steps.
GasNext ==
    \/ (\E t \in Threads : ThreadStep(t)) /\ UNCHANGED notGas
    \/ (\E t \in Threads : SpuriousWake(t)) /\ UNCHANGED notGas

InitGas ==
    GasInit /\ InvIdle /\ MaxIdle /\ ForkIdle /\ BigIdle /\ LockIdle /\ ListIdle

SpecGas == InitGas /\ [][GasNext]_vars

\* The gas station under fair scheduling: a thread that can take a step
\* takes one, and a thread that finds the mutex free again and again gets
\* it (the fillers sleep between their critical sections). No pace is
\* promised for spurious wake-ups.
GasFairness ==
    \A t \in Threads :
        /\ WF_vars(ThreadStep(t) /\ UNCHANGED notGas)
        /\ SF_vars(Acquire(t) /\ UNCHANGED notGas)

SpecGasFair == InitGas /\ [][GasNext]_vars /\ GasFairness

\* pthread_lock_basic: any interleaving of the threads' steps.
LockNext ==
    \/ (\E t \in Mailers : RoutineStart(t)) /\ UNCHANGED notLock
    \/ (\E t \in Mailers : RoutineLock(t)) /\ UNCHANGED notLock
    \/ (\E t \in Mailers : RoutineLoad(t)) /\ UNCHANGED notLock
    \/ (\E t \in Mailers : RoutineStore(t)) /\ UNCHANGED notLock
    \/ (\E t \in Mailers : RoutineUnlock(t)) /\ UNCHANGED notLock
    \/ MainJoin /\ UNCHANGED notLock

InitLock ==
    LockInit /\ InvIdle /\ MaxIdle /\ ForkIdle /\ BigIdle /\ GasIdle /\ ListIdle

SpecLock == InitLock /\ [][LockNext]_vars

\* The linked list: appends, pokes and findLoop() calls in any order.
ListNext ==
    \/ appendToTail /\ UNCHANGED notList
    \/ pokeNext /\ UNCHANGED notList
    \/ CallFindLoop /\ UNCHANGED notList

InitList ==
    ListInit /\ InvIdle /\ MaxIdle /\ ForkIdle /\ BigIdle /\ GasIdle /\ LockIdle

SpecList == InitList /\ [][ListNext]_vars

\* ------------------------------------------------------------------------
\* Properties of class Inversions
\* ------------------------------------------------------------------------
\* Number of pairs i < j inside [start, start + n) with a[i] > a[j].
InvCount(a, start, n) ==
    Cardinality({p \in (start..(start + n - 1)) \X (start..(start + n - 1)) :
                    p[1] < p[2] /\ a[p[1]] > a[p[2]]})

IsSorted(a, start, n) ==
    \A i \in start..(start + n - 2) : a[i] <= a[i + 1]

StrictlyDescending(a, n) ==
    \A i \in 0..(n - 2) : a[i] > a[i + 1]

HasDuplicates(a, n) ==
    \E i, j \in 0..(n - 1) : i < j /\ a[i] = a[j]

Logged(fn) == {i \in 1..Len(calls) : calls[i].fn = fn}

\* C1: numInversions() returns the number of pairs i < j with S[i] > S[j] of
\* the array as it was before the call, and so does every numInvSort(start, n)
\* made on the way for its own sub-range.
C1_CountIsExact ==
    (phase = "counted") =>
        /\ nInvFound = InvCount(orig, 0, nelements)
        /\ \A i \in Logged("numInvSort") :
              calls[i].rv = InvCount(calls[i].pre, calls[i].args[1],
                                     calls[i].args[2])

\* C2: after numInversions() returns, numbers[i] <= numbers[i+1] for every
\* adjacent pair, and verify() returns true with error_index 0.
C2_SortedAfter ==
    (phase = "counted") =>
        /\ IsSorted(numbers, 0, nelements)
        /\ verify(numbers, nelements) = <<TRUE, 0>>
        /\ verify_rv \in {"none", "true"}
        /\ error_index = 0

C2_Witness ==
    /\ phase = "counted"
    /\ verify_rv = "true"
    /\ nelements = MaxLen
    /\ ~IsSorted(orig, 0, nelements)
    /\ \E i \in Logged("numInvMerge") : calls[i].path = "merge"

\* C5: a second numInversions() call, on the array the first call left
\* behind, returns 0 and leaves every element unchanged.
C5_SecondCallIsNoop ==
    (ncalls >= 2) => (nInvFound = 0 /\ numbers = orig)

C5_Witness ==
    /\ ncalls = 2
    /\ nelements = MaxLen
    /\ nInvFound = 0
    /\ Logged("numInvMerge") # {}
    /\ numbers[0] < numbers[nelements - 1]

\* C6: with duplicate values in the input, pairs of equal elements are never
\* counted: the returned count is the number of pairs i < j with S[i]
\* strictly greater than S[j]. Stated for the calls in which no merge ran
\* the two-pointer loop, so that every cross-half count comes from a fast
\* path of numInvMerge.
C6_TiesNotCounted ==
    ( /\ phase = "counted"
      /\ HasDuplicates(orig, nelements)
      /\ \A i \in Logged("numInvMerge") : calls[i].path # "merge" )
    => nInvFound = InvCount(orig, 0, nelements)

\* C7: on a strictly descending input of length N, numInversions() returns
\* N*(N-1)/2 and leaves the same elements in ascending order.
C7_DescendingInput ==
    (phase = "counted" /\ StrictlyDescending(orig, nelements)) =>
        /\ nInvFound = (nelements * (nelements - 1)) \div 2
        /\ \A i \in 0..(nelements - 1) : numbers[i] = orig[nelements - 1 - i]

\* C8: on an input already sorted in non-decreasing order, numInversions()
\* returns 0 and leaves the array unchanged.
C8_SortedInputUntouched ==
    (phase = "counted" /\ IsSorted(orig, 0, nelements)) =>
        (nInvFound = 0 /\ numbers = orig)

C8_Witness ==
    /\ phase = "counted"
    /\ ncalls = 1
    /\ nelements = MaxLen
    /\ IsSorted(orig, 0, nelements)
    /\ HasDuplicates(orig, nelements)
    /\ orig[0] < orig[nelements - 1]
    /\ Logged("numInvMerge") # {}
    /\ Logged("numInvBase") # {}

\* C9: with N <= 1, numInversions() returns 0, calls none of numInvBase,
\* numInvSort and numInvMerge, and leaves the array alone; numInvSort(start, n)
\* with n <= 1 returns 0, calls nothing and changes nothing.
C9_TrivialLengths ==
    (phase = "counted") =>
        /\ (nelements <= 1) =>
               (nInvFound = 0 /\ numbers = orig /\ calls = << >>)
        /\ \A i \in Logged("numInvSort") :
               (calls[i].args[2] <= 1) =>
                   /\ calls[i].rv = 0
                   /\ calls[i].post = calls[i].pre
                   /\ calls[i].inner = 0

C9_Witness ==
    /\ phase = "counted"
    /\ nelements = 1
    /\ ncalls = 1
    /\ orig[0] > 0
    /\ nInvFound = 0

\* ------------------------------------------------------------------------
\* Properties of class maxSumKEntriesArray
\* ------------------------------------------------------------------------
\* a[s] + ... + a[s + k - 1]
RECURSIVE WindowSum(_, _, _)
WindowSum(a, s, k) ==
    IF k <= 0 THEN 0 ELSE a[s] + WindowSum(a, s + 1, k - 1)

\* The start positions of the windows of length k, and the largest sum.
Starts(n, k) == 0..(n - k)

MaxWindowSum(a, n, k) ==
    CHOOSE m \in {WindowSum(a, s, k) : s \in Starts(n, k)} :
        \A s \in Starts(n, k) : WindowSum(a, s, k) <= m

FirstMaxStart(a, n, k) ==
    CHOOSE s \in Starts(n, k) :
        /\ WindowSum(a, s, k) = MaxWindowSum(a, n, k)
        /\ \A t \in Starts(n, k) :
              WindowSum(a, t, k) = MaxWindowSum(a, n, k) => s <= t

\* C3: for N >= 1 and 1 <= k <= N, findMaxSum(k) and
\* findMaxSumK_BruteForce(k) return the same maximum sum and the same start
\* index, whatever the signs of the elements.
C3_MethodsAgree ==
    (op = "verify" /\ arraySize >= 1 /\ kArg >= 1 /\ kArg <= arraySize) =>
        /\ sum_slow = sum_opt
        /\ startIndex_slow = startIndex_opt

C11_AssertionsHold ==
    (phase = "counted") =>
        \A i \in 1..Len(calls) :
            LET c == calls[i] IN
            /\ (c.fn = "numInvMerge") => (c.args[1] + c.args[3] = c.args[2])
            /\ (c.fn = "numInvBase") => (c.args[2] = 2)
            /\ (c.fn = "swap") =>
                   (c.args[1] < nelements /\ c.args[2] < nelements)
            /\ (c.fn = "swapChunk") =>
                   /\ c.args[1] + c.args[3] <= nelements
                   /\ c.args[2] + c.args[3] <= nelements

C11_Witness ==
    /\ phase = "counted"
    /\ nelements >= 4
    /\ Logged("numInvMerge") # {}
    /\ Logged("numInvBase") # {}
    /\ Logged("swap") # {}
    /\ \E i \in Logged("swapChunk") :
          calls[i].args[2] + calls[i].args[3] = nelements

\* C12: the two half-calls change only indexes inside their own sub-range,
\* and run in either order or interleaved, then joined and merged, give the
\* inversion count and the array that numInversions() gives.
C12_ForkJoinSameAsSequential ==
    /\ \A p \in Procs :
          LET h == HalfOf(p, fnelements)
          IN  fwrote[p] \subseteq (h[1]..(h[1] + h[2] - 1))
    /\ (fpc = "joined") =>
          LET r == numInversions(forig, fnelements)
          IN  /\ ftotal = r.rv
              /\ fnumbers = r.a

C12_Witness ==
    /\ fpc = "joined"
    /\ fmixed
    /\ fnelements = MaxForkLen
    /\ fwrote[1] # {}
    /\ fwrote[2] # {}
    /\ ftotal > 0

\* ------------------------------------------------------------------------
\* Properties of class maxSumKEntriesArray: the empty sequence
\* ------------------------------------------------------------------------
\* C13: on an empty sequence (N = 0) a call with k >= 1 is rejected by a
\* fatal assertion and returns no (sum, start index) result: no public
\* method ever returns on an empty array.
C13_EmptyRejected ==
    ~( /\ arraySize = 0
       /\ kArg >= 1
       /\ op \in {"findMaxSum", "findMaxSumK_BruteForce", "verify"} )

\* C13 as amended: on an empty sequence a call with k >= 1 returns through
\* the k >= arraySize branch, with sum 0 and start index 0, no loop run.
C13_EmptyReturnsZero ==
    (arraySize = 0 /\ kArg >= 1) =>
        /\ (op \in {"findMaxSum", "findMaxSumK_BruteForce"}) =>
              (result = 0 /\ startOfRun = 0)
        /\ (op = "findMaxSum") => (slides = 0)
        /\ (op = "verify") =>
              /\ sum_slow = 0
              /\ sum_opt = 0
              /\ startIndex_slow = 0
              /\ startIndex_opt = 0
              /\ verified = "true"

C13_Witness ==
    /\ arraySize = 0
    /\ op = "findMaxSum"
    /\ kArg = 1
    /\ result = 0
    /\ startOfRun = 0

\* ------------------------------------------------------------------------
\* Properties of class Inversions: numInvMerge
\* ------------------------------------------------------------------------
\* Number of pairs (i in the lower list, j in the upper list) with a[i] > a[j].
CrossInv(a, lo, hi, nitems_lo, nitems_hi) ==
    Cardinality({p \in (lo..(lo + nitems_lo - 1)) \X (hi..(hi + nitems_hi - 1)) :
                    a[p[1]] > a[p[2]]})

\* The logged numInvMerge calls, and those that ran the two-pointer loop.
Merges == Logged("numInvMerge")

LoopMerges == {i \in Merges : calls[i].path = "merge"}

\* Both lists of the merge call c are sorted when it begins.
SortedHalves(c) ==
    /\ IsSorted(c.pre, c.args[1], c.args[3])
    /\ IsSorted(c.pre, c.args[2], c.args[4])

\* C14: given two adjacent sorted sub-ranges, hi == lo + n_lo and
\* n_hi - n_lo in {0, 1}, numInvMerge returns the number of pairs (a in the
\* lower, b in the upper) with a > b and leaves the combined range sorted.
C14_MergeCountsCrossPairs ==
    (phase = "counted") =>
        \A i \in Merges :
            LET c == calls[i] IN
            ( /\ SortedHalves(c)
              /\ c.args[2] = c.args[1] + c.args[3]
              /\ (c.args[4] - c.args[3]) \in {0, 1} )
            => /\ c.rv = CrossInv(c.pre, c.args[1], c.args[2], c.args[3],
                                  c.args[4])
               /\ IsSorted(c.post, c.args[1], c.args[3] + c.args[4])

\* How often the value v occurs among the first n slots of a.
Occurrences(a, n, v) == Cardinality({i \in 0..(n - 1) : a[i] = v})

\* C15: after numInversions() the array is a permutation of the input: every
\* value occurs as often as before the call.
C15_Permutation ==
    (phase = "counted") =>
        \A v \in 0..MaxVal :
            Occurrences(numbers, nelements, v) = Occurrences(orig, nelements, v)

\* The sum of the unconsumed lower-list counts over the steps that took
\* their element from the upper list.
RECURSIVE HiStepSum(_)
HiStepSum(steps) ==
    IF steps = << >>
    THEN 0
    ELSE (IF Head(steps).took = "hi" THEN Head(steps).unconsumed ELSE 0)
         + HiStepSum(Tail(steps))

LowerAboveUpper(c) ==
    \A i \in c.args[1]..(c.args[1] + c.args[3] - 1) :
        \A j \in c.args[2]..(c.args[2] + c.args[4] - 1) : c.pre[i] > c.pre[j]

\* C17: with n_lo == n_hi, the first fast path not taken and the last upper
\* element <= the first lower element, every lower element exceeds every
\* upper element, the halves are block-exchanged, the range is sorted
\* afterwards and the call returns n_lo * n_hi, the exact cross count; the
\* path is never taken when n_lo != n_hi.
C17_BlockExchangeExact ==
    (phase = "counted") =>
        \A i \in Merges :
            LET c == calls[i]
                lo == c.args[1]
                hi == c.args[2]
                nitems_lo == c.args[3]
                nitems_hi == c.args[4]
            IN  /\ (nitems_lo # nitems_hi) => (c.path # "hj <= l0")
                /\ ( /\ nitems_lo = nitems_hi
                     /\ ~(c.pre[lo + nitems_lo - 1] <= c.pre[hi])
                     /\ c.pre[hi + nitems_hi - 1] <= c.pre[lo] )
                   => /\ c.path = "hj <= l0"
                      /\ LowerAboveUpper(c)
                      /\ IsSorted(c.post, lo, nitems_lo + nitems_hi)
                      /\ c.rv = nitems_lo * nitems_hi
                      /\ c.rv = CrossInv(c.pre, lo, hi, nitems_lo, nitems_hi)

\* C18: when the last lower element <= the first upper element, numInvMerge
\* returns 0 and moves nothing, for equal and for unequal lengths.
C18_FirstFastPath ==
    (phase = "counted") =>
        \A i \in Merges :
            LET c == calls[i] IN
            (c.pre[c.args[1] + c.args[3] - 1] <= c.pre[c.args[2]])
            => /\ c.rv = 0
               /\ c.post = c.pre
               /\ c.inner = 0
               /\ c.path = "li <= h0"

C18_Witness ==
    /\ phase = "counted"
    /\ ~IsSorted(orig, 0, nelements)
    /\ \E i \in Merges :
          /\ calls[i].path = "li <= h0"
          /\ calls[i].args[3] # calls[i].args[4]
          /\ calls[i].pre[calls[i].args[2] - 1] = calls[i].pre[calls[i].args[2]]

\* C19 as stated: when n_lo != n_hi, the loop leaves one surplus upper-half
\* element, which is bubbled leftward by adjacent swaps, one inversion
\* counted per swap.
C19_OneSurplusBubbled ==
    (phase = "counted") =>
        \A i \in LoopMerges :
            LET c == calls[i] IN
            (c.args[3] # c.args[4])
            => /\ c.leftover_lo = 0
               /\ c.leftover_hi = 1
               /\ c.rv = c.loop_rv + c.inner

\* C19: when n_lo != n_hi, the loop ends with the lower list exhausted and
\* n_hi - 1 upper-list items unconsumed; they stay where they are, no swap is
\* made and nothing is added to the loop's count, and the merged range is in
\* order.
C19_SurplusLeftInPlace ==
    (phase = "counted") =>
        \A i \in LoopMerges :
            LET c == calls[i]
                hi == c.args[2]
                nitems_hi == c.args[4]
            IN  (c.args[3] # nitems_hi)
                => /\ c.leftover_lo = 0
                   /\ c.leftover_hi = nitems_hi - 1
                   /\ c.inner = 0
                   /\ c.rv = c.loop_rv
                   /\ \A k \in (hi + 1)..(hi + nitems_hi - 1) : c.post[k] = c.pre[k]
                   /\ IsSorted(c.post, c.args[1], c.args[3] + nitems_hi)

C19_Witness ==
    /\ phase = "counted"
    /\ \E i \in LoopMerges :
          /\ calls[i].args[3] # calls[i].args[4]
          /\ calls[i].leftover_hi = 2
          /\ calls[i].rv > 0

\* The call record at position i of the log splits its range as
\* <<start, nitems>> says: the entry before it is the merge of the two
\* halves, before the merge's inner calls comes the sort of the upper half
\* and, before the upper half's inner calls, the sort of the lower half; total is the sum of
\* the three counts.
SplitAt(i, start, nitems, total) ==
    LET nitems_lo == nitems \div 2
        nitems_hi == nitems - nitems_lo
        g  == i - 1
        h  == g - calls[g].inner - 1
        l  == h - calls[h].inner - 1
    IN  /\ l >= 1
        /\ calls[g].fn = "numInvMerge"
        /\ calls[g].args = <<start, start + nitems_lo, nitems_lo, nitems_hi>>
        /\ calls[h].fn = "numInvSort"
        /\ calls[h].args = <<start + nitems_lo, nitems_hi>>
        /\ calls[l].fn = "numInvSort"
        /\ calls[l].args = <<start, nitems_lo>>
        /\ total = calls[l].rv + calls[h].rv + calls[g].rv

\* C20: a range of n > 2 elements is split into a lower half of floor(n/2)
\* and an upper half of n - floor(n/2) elements; every merge call has
\* n_lo >= 1 and n_hi - n_lo in {0, 1}; the count returned for a range is
\* the lower half's count plus the upper half's count plus the merge count.
C20_SplitAndSum ==
    (phase = "counted") =>
        /\ \A i \in Merges :
              /\ calls[i].args[3] >= 1
              /\ (calls[i].args[4] - calls[i].args[3]) \in {0, 1}
        /\ \A i \in Logged("numInvSort") :
              (calls[i].args[2] > 2)
              => SplitAt(i, calls[i].args[1], calls[i].args[2], calls[i].rv)
        /\ (nelements > 2) => SplitAt(Len(calls) + 1, 0, nelements, nInvFound)

C20_Witness ==
    /\ phase = "counted"
    /\ nelements = 5
    /\ nInvFound > 0
    /\ \E i \in Logged("numInvSort") :
          /\ calls[i].args[2] = 3
          /\ calls[i].rv > 0
    /\ \E i \in Merges : calls[i].args = <<0, 2, 2, 3>> /\ calls[i].rv > 0
    /\ \E i \in Merges : calls[i].args = <<2, 3, 1, 2>> /\ calls[i].rv > 0

\* C21: for a two-element sub-range numInvBase swaps the two elements and
\* returns 1 if and only if the left element is strictly greater than the
\* right one; otherwise it returns 0 and changes nothing. No element outside
\* the two positions is modified.
C21_BaseCase ==
    (phase = "counted") =>
        \A i \in Logged("numInvBase") :
            LET c == calls[i]
                start == c.args[1]
            IN  /\ c.args[2] = 2
                /\ \A x \in DOMAIN c.pre :
                      (x \notin {start, start + 1}) => (c.post[x] = c.pre[x])
                /\ IF c.pre[start] > c.pre[start + 1]
                   THEN /\ c.rv = 1
                        /\ c.post[start] = c.pre[start + 1]
                        /\ c.post[start + 1] = c.pre[start]
                        /\ c.inner = 1
                   ELSE /\ c.rv = 0
                        /\ c.post = c.pre
                        /\ c.inner = 0

C21_Witness ==
    /\ phase = "counted"
    /\ \E i \in Logged("numInvBase") :
          /\ calls[i].args[1] > 0
          /\ calls[i].pre[calls[i].args[1]] > calls[i].pre[calls[i].args[1] + 1]
    /\ \E i \in Logged("numInvBase") :
          calls[i].pre[calls[i].args[1]] = calls[i].pre[calls[i].args[1] + 1]

\* ------------------------------------------------------------------------
\* Properties of class maxSumKEntriesArray: the sliding loop
\* ------------------------------------------------------------------------
\* C22: in findMaxSum with 1 <= k < N, after every advance currSum is the sum
\* of the k elements S[start..end] of the current window, end - start ==
\* k - 1, obtained from the previous sum by subtracting the old left-edge
\* element and adding the new right-edge element; the N-k+1 windows are
\* examined once each, in order, and no index outside [0, N-1] is read.
C22_WindowSumInvariant ==
    (op \in {"findMaxSum", "verify"} /\ kArg >= 1 /\ kArg < arraySize) =>
        /\ Len(windows) = arraySize - kArg + 1
        /\ slides = arraySize - kArg
        /\ readIdx \subseteq 0..(arraySize - 1)
        /\ \A i \in 1..Len(windows) :
              LET w == windows[i] IN
              /\ w.start = i - 1
              /\ w.end - w.start = kArg - 1
              /\ w.currSum = WindowSum(intArray, w.start, kArg)
              /\ (i > 1) =>
                    w.currSum = (windows[i - 1].currSum
                                   - intArray[windows[i - 1].start])
                                + intArray[w.end]

C22_Witness ==
    /\ op = "findMaxSum"
    /\ kArg = 2
    /\ arraySize = MaxN
    /\ Len(windows) = MaxN - 1
    /\ windows[1].currSum # windows[2].currSum
    /\ intArray[0] # intArray[1]
    /\ readIdx = 0..(arraySize - 1)

\* C23: for 1 <= k <= N each of findMaxSum and findMaxSumK_BruteForce
\* returns with the start index written by that call, lying in [0, N-k], and
\* the k elements beginning at that index sum to the returned maximum, also
\* when every window sum is zero or negative.
C23_IndexMatchesSum ==
    (op = "verify" /\ kArg >= 1 /\ kArg <= arraySize) =>
        /\ startIndex_opt \in 0..(arraySize - kArg)
        /\ WindowSum(intArray, startIndex_opt, kArg) = sum_opt
        /\ startIndex_slow \in 0..(arraySize - kArg)
        /\ WindowSum(intArray, startIndex_slow, kArg) = sum_slow

\* C24: a window length k < 1 is a defined edge case of findMaxSum: the call
\* returns a result and reads no element outside indexes [0, N-1].
C24_SmallKReadsInRange ==
    (op = "findMaxSum" /\ kArg < 1) => (readIdx \subseteq 0..(arraySize - 1))

\* ------------------------------------------------------------------------
\* Properties of class Inversions: termination
\* ------------------------------------------------------------------------
\* The two numInvSort calls made for the range of nitems items whose record
\* is at position i of the log are on fewer items each.
SubRangesShorter(i, nitems) ==
    LET g == i - 1
        h == g - calls[g].inner - 1
        l == h - calls[h].inner - 1
    IN  /\ calls[h].fn = "numInvSort" /\ calls[h].args[2] < nitems
        /\ calls[l].fn = "numInvSort" /\ calls[l].args[2] < nitems

\* C25: numInversions() terminates: every recursive numInvSort call is on a
\* strictly shorter sub-range than its caller, and every iteration of the
\* merge loop advances lop or hip by one, until one side is exhausted.
C25_Terminates ==
    (phase = "counted") =>
        /\ \A i \in Logged("numInvSort") :
              (calls[i].path = "split") => SubRangesShorter(i, calls[i].args[2])
        /\ (nelements > 2) => SubRangesShorter(Len(calls) + 1, nelements)
        /\ \A i \in LoopMerges :
              LET c == calls[i]
                  lo_taken == c.args[3] - c.leftover_lo
                  hi_taken == c.args[4] - c.leftover_hi
              IN  /\ lo_taken + hi_taken = Len(c.steps)
                  /\ lo_taken >= 0 /\ hi_taken >= 0
                  /\ c.leftover_lo >= 0 /\ c.leftover_hi >= 0
                  /\ (c.leftover_lo = 0) \/ (c.leftover_hi = 0)

C25_Witness ==
    /\ phase = "counted"
    /\ nelements = MaxLen
    /\ \E i \in Logged("numInvSort") : calls[i].path = "split"
    /\ \E i \in LoopMerges : Len(calls[i].steps) >= 3

\* ------------------------------------------------------------------------
\* Properties of class Inversions: the width of the count
\* ------------------------------------------------------------------------
\* C26: for every input of at most Num_items items the count held in the
\* 32-bit int never exceeds 2^31 - 1: here, the product nitems_lo *
\* nitems_lo of the block-exchange path does not overflow.
C26_NoOverflow ==
    (big_pc = "returned") => (~big_overflow /\ big_rv >= 0)

\* ------------------------------------------------------------------------
\* Properties of the gas station
\* ------------------------------------------------------------------------
\* The statements a thread executes with mutexFuel held.
HoldingAt == {"test", "draw", "unlock", "fill", "wake"}

\* C27: under every interleaving fuel >= 0; a thread between its lock and
\* its unlock is the holder of mutexFuel; a car is at its subtraction only
\* with fuel >= MIN_FUEL_AVAILABLE; and every change of fuel is made by the
\* thread holding the mutex, a car's being a subtraction of
\* MIN_FUEL_AVAILABLE from a fuel that is at least that.
C27_FuelGuarded ==
    /\ [](/\ fuel >= 0
          /\ \A t \in DOMAIN gpc :
                /\ (gpc[t] \in HoldingAt) => (mutexFuel = t)
                /\ (gpc[t] = "draw") => (fuel >= MIN_FUEL_AVAILABLE))
    /\ [][(fuel' # fuel) =>
             /\ mutexFuel # 0
             /\ mutexFuel' = mutexFuel
             /\ gpc[mutexFuel] \in {"fill", "draw"}
             /\ gpc'[mutexFuel] # gpc[mutexFuel]
             /\ (grole[mutexFuel] = "car") =>
                    /\ fuel >= MIN_FUEL_AVAILABLE
                    /\ fuel' = fuel - MIN_FUEL_AVAILABLE]_vars

C27_Witness ==
    /\ gprog = "Self-Study"
    /\ fuel < MIN_FUEL_AVAILABLE
    /\ \E c \in Threads : grole[c] = "car" /\ gpc[c] = "unlock"
    /\ \E d \in Threads : gpc[d] = "woken"

\* C28: under fair scheduling every car blocked in pthread_cond_wait is
\* eventually woken, draws its fuel and exits.
C28_CarsEventuallyDraw ==
    \A t \in Threads : (gpc[t] = "waiting") ~> (gpc[t] = "done")

C28_Witness ==
    /\ \E c \in Threads : gpc[c] = "woken" /\ fuel >= MIN_FUEL_AVAILABLE
    /\ \E d \in Threads : grole[d] = "car" /\ gpc[d] = "done"

\* ------------------------------------------------------------------------
\* Properties of pthread_lock_basic
\* ------------------------------------------------------------------------
\* C29: with mails++ between lock and unlock, once every thread is joined
\* mails equals the number of threads times the iterations of each, the
\* Expected value main() prints: no increment is lost.
C29_NoLostIncrement ==
    (lmain = "joined") =>
        /\ actual = MaxMailers * MaxIter
        /\ mails = actual

C29_Witness ==
    /\ lmain = "joined"
    /\ \E t \in Mailers :
          /\ old_mails_ct[t] > 0
          /\ new_mails_ct[t] < MaxMailers * MaxIter

\* ------------------------------------------------------------------------
\* Properties of LinkedList::findLoop
\* ------------------------------------------------------------------------
\* The chain from head ends in a NULL next pointer.
ReachesNull == \E k \in 0..llalloc : Hop(llnext, head, k) = 0

\* The number of hops from head after which a node is met a second time.
FirstRepeat ==
    CHOOSE j \in 1..llalloc :
        /\ \E i \in 0..(j - 1) : Hop(llnext, head, i) = Hop(llnext, head, j)
        /\ \A j2 \in 1..(j - 1) :
              \A i \in 0..(j2 - 1) :
                  Hop(llnext, head, i) # Hop(llnext, head, j2)

\* C30: findLoop terminates on every list; it returns NULL if and only if
\* the chain from head reaches a NULL next pointer, and otherwise the first
\* node met a second time, the node the cycle-closing pointer targets.
C30_FindLoop ==
    (llop = "findLoop") =>
        /\ llsteps <= llalloc + 1
        /\ (loopNode = 0) <=> ReachesNull
        /\ (~ReachesNull) =>
              /\ loopNode = Hop(llnext, head, FirstRepeat)
              /\ llnext[Hop(llnext, head, FirstRepeat - 1)] = loopNode
              /\ llsteps = FirstRepeat + 1

C30_Witness ==
    /\ llop = "findLoop"
    /\ llalloc = MaxNodes
    /\ loopNode \notin {0, head}
    /\ llnext[loopNode] # loopNode

====
